---- MODULE Spec2Model ----
(***************************************************************************)
(* Model of the documentation crawler of src/bot.js: extractLinks,         *)
(* extractRelevantSnippet and the async orchestrator                       *)
(* fetchCompleteDocumentation.                                             *)
(*                                                                         *)
(* A JavaScript string is a sequence of one-character strings, so that     *)
(* trim, split, toLowerCase, startsWith, includes, replace and the regular *)
(* expression match are computed and not assumed.  The code point U+274C   *)
(* (the cross mark of the two fixed messages) is the one element "U+274C". *)
(***************************************************************************)
EXTENDS Integers, Sequences, FiniteSets, TLC

VARIABLES
  pc,            \* position of the call: start / fanout / done, or snip*/links* below
  baseUrl,       \* argument baseUrl
  query,         \* argument query
  anchors,       \* the href attribute of every <a> of the main page, in document order
  rootFetch,     \* none / ok / failed: outcome of axios.get(baseUrl), line 148
  results,       \* the local `results` of line 150
  links,         \* extractLinks($main, baseUrl), line 157
  uniqueLinks,   \* line 160
  requests,      \* the candidate URLs axios.get was called with at line 163, in call order
  outcome,       \* per candidate: pending / ok / failed (the network's answer)
  pages,         \* per candidate: what its promise of line 161 resolved to
  matchedPages,  \* line 176, in the order of `pages`
  ranked,        \* matchedPages after the count and the sort, lines 179-183
  topPages,      \* line 186
  snippets,      \* the snippet of each top page, line 188
  threw,         \* whether the body of the try block threw after the fan-out
  settled,       \* the promise fetchCompleteDocumentation returns
  fullText,      \* argument of extractRelevantSnippet (snippet specification)
  keptLines,     \* line 135
  snippet        \* the value extractRelevantSnippet returns

vars == <<pc, baseUrl, query, anchors, rootFetch, results, links, uniqueLinks, requests,
          outcome, pages, matchedPages, ranked, topPages, snippets, threw, settled,
          fullText, keptLines, snippet>>

-----------------------------------------------------------------------------
(* Bounds of the model *)

\* how many anchors of MainAnchors the main page holds at most
MaxAnchors == 9
\* how many anchors a page of the link specification holds at most
MaxHrefs == 2
\* how many lines a text of the snippet specification holds at most
MaxLines == 5

-----------------------------------------------------------------------------
(* JavaScript string primitives *)

Max(a, b) == IF a >= b THEN a ELSE b
Min(a, b) == IF a <= b THEN a ELSE b

UpperChars == <<"A","B","C","D","E","F","G","H","I","J","K","L","M","N","O","P","Q","R","S","T","U","V","W","X","Y","Z">>
LowerChars == <<"a","b","c","d","e","f","g","h","i","j","k","l","m","n","o","p","q","r","s","t","u","v","w","x","y","z">>

\* String.prototype.toLowerCase on one character (the ASCII letters)
LowerChar(c) ==
  IF \E i \in 1..26 : UpperChars[i] = c
  THEN LowerChars[CHOOSE i \in 1..26 : UpperChars[i] = c]
  ELSE c

ToLowerCase(s) == [i \in 1..Len(s) |-> LowerChar(s[i])]

\* the characters \s matches and trim() removes (those of the model's alphabet)
IsSpace(c) == c \in {" ", "\n", "\t"}

RECURSIVE TrimStart(_)
TrimStart(s) == IF s # <<>> /\ IsSpace(Head(s)) THEN TrimStart(Tail(s)) ELSE s

RECURSIVE TrimEnd(_)
TrimEnd(s) ==
  IF s # <<>> /\ IsSpace(s[Len(s)]) THEN TrimEnd(SubSeq(s, 1, Len(s) - 1)) ELSE s

\* String.prototype.trim
Trim(s) == TrimEnd(TrimStart(s))

\* String.prototype.startsWith
StartsWith(s, p) == Len(p) <= Len(s) /\ SubSeq(s, 1, Len(p)) = p

\* String.prototype.includes
Includes(s, q) == \E i \in 0..(Len(s) - Len(q)) : SubSeq(s, i + 1, i + Len(q)) = q

\* line.toLowerCase().includes(query.toLowerCase())
ContainsQuery(text, q) == Includes(ToLowerCase(text), ToLowerCase(q))

RECURSIVE StripTrailingSlashes(_)
\* baseUrl.replace(/\/+$/, '')
StripTrailingSlashes(s) ==
  IF s # <<>> /\ s[Len(s)] = "/" THEN StripTrailingSlashes(SubSeq(s, 1, Len(s) - 1)) ELSE s

\* /^https?:\/\//i.test(href)
IsHttpUrl(href) ==
  \/ StartsWith(ToLowerCase(href), <<"h","t","t","p",":","/","/">>)
  \/ StartsWith(ToLowerCase(href), <<"h","t","t","p","s",":","/","/">>)

RECURSIVE SplitLines(_)
\* fullText.split('\n')
SplitLines(s) ==
  IF \E i \in 1..Len(s) : s[i] = "\n"
  THEN LET i == CHOOSE k \in 1..Len(s) : s[k] = "\n" /\ \A j \in 1..(k - 1) : s[j] # "\n"
       IN  <<SubSeq(s, 1, i - 1)>> \o SplitLines(SubSeq(s, i + 1, Len(s)))
  ELSE <<s>>

RECURSIVE Join(_, _)
\* Array.prototype.join
Join(ls, sep) ==
  IF ls = <<>> THEN <<>>
  ELSE IF Len(ls) = 1 THEN ls[1]
  ELSE ls[1] \o sep \o Join(Tail(ls), sep)

RECURSIVE SortAscending(_)
\* Array.from(keepSet).sort((a, b) => a - b)
SortAscending(set) ==
  IF set = {} THEN <<>>
  ELSE LET m == CHOOSE x \in set : \A y \in set : x <= y
       IN  <<m>> \o SortAscending(set \ {m})

-----------------------------------------------------------------------------
(* extractLinks, src/bot.js lines 92-110 *)

\* an <a> element without an href attribute: $(el).attr('href') is undefined
NoHref == <<"undefined">>

\* lines 98-102: the relative -> absolute conversion of one href
ResolveHref(href, base) ==
  IF StartsWith(href, <<"/">>) THEN StripTrailingSlashes(base) \o href
  ELSE IF ~IsHttpUrl(href) THEN StripTrailingSlashes(base) \o <<"/">> \o href
  ELSE href

RECURSIVE extractLinks(_, _)
\* the .each loop over the anchors, pushing to foundLinks
extractLinks(as, base) ==
  IF as = <<>> THEN <<>>
  ELSE LET href == Head(as)
           rest == extractLinks(Tail(as), base)
       IN  IF href = NoHref \/ href = <<>> THEN rest
           ELSE IF StartsWith(ResolveHref(href, base), base)
                THEN <<ResolveHref(href, base)>> \o rest
                ELSE rest

-----------------------------------------------------------------------------
(* extractRelevantSnippet, src/bot.js lines 115-141 *)

\* junkPatterns, lines 59-64: twelve whole-line words, case-insensitive, and /^\s*$/
JunkWords ==
  { <<"t","h","e","m","e">>, <<"a","u","t","o">>, <<"l","i","g","h","t">>, <<"d","a","r","k">>, <<"n","a","v","i","g","a","t","i","o","n">>, <<"i","n","d","e","x">>, <<"m","o","d","u","l","e","s">>,
    <<"p","r","e","v","i","o","u","s"," ","t","o","p","i","c">>, <<"n","e","x","t"," ","t","o","p","i","c">>, <<"s","h","o","w"," ","s","o","u","r","c","e">>, <<"r","e","p","o","r","t"," ","a"," ","b","u","g">>, <<"c","h","a","n","g","e","l","o","g">> }

\* junkPatterns.some(pattern => pattern.test(line))
IsJunk(line) ==
  \/ ToLowerCase(line) \in JunkWords
  \/ \A i \in 1..Len(line) : IsSpace(line[i])

\* lines 116-119: split, trim each line, drop the junk lines
FilteredLines(text) ==
  SelectSeq([i \in 1..Len(SplitLines(text)) |-> Trim(SplitLines(text)[i])],
            LAMBDA l : ~IsJunk(l))

RECURSIVE MatchedFrom(_, _, _)
MatchedFrom(lines, q, idx) ==
  IF idx >= Len(lines) THEN <<>>
  ELSE (IF ContainsQuery(lines[idx + 1], q) THEN <<idx>> ELSE <<>>)
       \o MatchedFrom(lines, q, idx + 1)

\* lines 121-126: the 0-based indices of the matching lines
MatchedIndices(lines, q) == MatchedFrom(lines, q, 0)

\* a window that stops one line after the match
ContextWindow_Short(idx, n) == {i \in Max(0, idx - 2)..(idx + 1) : i < n}

\* line 130: for (i = Math.max(0, idx - 2); i <= idx + 2 && i < lines.length; i++)
ContextWindow(idx, n) == {i \in Max(0, idx - 2)..(idx + 2) : i < n}

\* lines 128-133
KeepSet(lines, matched) ==
  UNION {ContextWindow(matched[k], Len(lines)) : k \in 1..Len(matched)}

\* line 135
KeptLines(text, q) ==
  LET lines  == FilteredLines(text)
      sorted == SortAscending(KeepSet(lines, MatchedIndices(lines, q)))
  IN  [k \in 1..Len(sorted) |-> lines[sorted[k] + 1]]

\* line 137
SnippetLimit == 1000

ReadMore == <<".",".","."," ","[","R","e","a","d"," ","m","o","r","e","]">>

\* lines 136-140
Truncate(s) == IF Len(s) > SnippetLimit THEN SubSeq(s, 1, SnippetLimit) \o ReadMore ELSE s

extractRelevantSnippet(text, q) == Truncate(Join(KeptLines(text, q), <<"\n">>))

-----------------------------------------------------------------------------
(* new RegExp(query, 'gi') and String.prototype.match, src/bot.js line 180.   *)
(* The queries of the model are over letters, the space, "^" and "(": a       *)
(* letter or space matches itself ignoring case, "^" is the start-of-input    *)
(* assertion (no m flag), and "(" with no ")" is an unterminated group.       *)

\* new RegExp(query, 'gi') throws a SyntaxError
RegExpThrows(q) == \E i \in 1..Len(q) : q[i] = "("

RECURSIVE MatchEnd(_, _, _, _)
\* the end position of the match of atoms k.. of pat at 0-based position pos, or -1
MatchEnd(text, pos, pat, k) ==
  IF k > Len(pat) THEN pos
  ELSE IF pat[k] = "^"
       THEN (IF pos = 0 THEN MatchEnd(text, pos, pat, k + 1) ELSE -1)
       ELSE IF pos < Len(text) /\ LowerChar(text[pos + 1]) = LowerChar(pat[k])
            THEN MatchEnd(text, pos + 1, pat, k + 1)
            ELSE -1

RECURSIVE CountFrom(_, _, _)
\* the global match loop: lastIndex advances past each match, by one past an empty one
CountFrom(text, pat, lastIndex) ==
  LET starts == {i \in lastIndex..Len(text) : MatchEnd(text, i, pat, 1) # -1}
  IN  IF starts = {} THEN 0
      ELSE LET i == CHOOSE x \in starts : \A y \in starts : x <= y
               e == MatchEnd(text, i, pat, 1)
           IN  1 + CountFrom(text, pat, IF e = i THEN e + 1 ELSE e)

\* (page.text.match(new RegExp(query, 'gi')) || []).length
OccurrenceCount(text, q) == CountFrom(text, q, 0)

-----------------------------------------------------------------------------
(* The documentation site: what axios.get and cheerio's load(...)('body').text() *)
(* give for each URL, src/bot.js lines 148-153 and 163-165.                      *)

ExampleBase == <<"h","t","t","p","s",":","/","/","e","x","a","m","p","l","e",".","c","o","m","/","d","o","c","s">>

UrlIntro == <<"h","t","t","p","s",":","/","/","e","x","a","m","p","l","e",".","c","o","m","/","d","o","c","s","/","d","o","c","s","/","i","n","t","r","o">>
UrlGuide == <<"h","t","t","p","s",":","/","/","e","x","a","m","p","l","e",".","c","o","m","/","d","o","c","s","/","g","u","i","d","e">>
UrlApi   == <<"h","t","t","p","s",":","/","/","e","x","a","m","p","l","e",".","c","o","m","/","d","o","c","s","/","a","p","i">>
UrlFaq   == <<"h","t","t","p","s",":","/","/","e","x","a","m","p","l","e",".","c","o","m","/","d","o","c","s","/","f","a","q">>
UrlRef   == <<"h","t","t","p","s",":","/","/","e","x","a","m","p","l","e",".","c","o","m","/","d","o","c","s","/","r","e","f">>
UrlTips  == <<"h","t","t","p","s",":","/","/","e","x","a","m","p","l","e",".","c","o","m","/","d","o","c","s","/","t","i","p","s">>

\* the href attributes of the main page's anchors, in document order
MainAnchors ==
  << <<"/","d","o","c","s","/","i","n","t","r","o">>, <<"h","t","t","p","s",":","/","/","o","t","h","e","r",".","c","o","m","/","x">>, <<"g","u","i","d","e">>, NoHref,
     <<"h","t","t","p","s",":","/","/","e","x","a","m","p","l","e",".","c","o","m","/","d","o","c","s","/","a","p","i">>, <<"g","u","i","d","e">>, <<"f","a","q">>, <<"r","e","f">>, <<"t","i","p","s">>, <<"f","a","q">> >>

\* $page('body').text() of the page at url, before the trim
SiteBody(url) ==
  CASE url = ExampleBase -> <<"\n"," ","D","o","c","s"," ","H","o","m","e"," ","\n","I","n","d","e","x","\n","m","a","p"," ","r","e","f","e","r","e","n","c","e","\n","g","u","i","d","e"," ","t","o"," ","m","a","p","\n">>
    [] url = UrlIntro    -> <<"I","n","t","r","o","\n","m","a","p"," ","m","a","p","\n","m","a","p">>
    [] url = UrlGuide    -> <<" ","t","h","e"," ","m","a","p"," ","\n">>
    [] url = UrlApi      -> <<"m","a","p","\n","M","A","P","\n","M","a","p"," ","a","\n","m","a","p"," ","b"," ","m","a","p">>
    [] url = UrlFaq      -> <<"A","u","t","o","\n","u","s","e"," ","^","m","a","p"," ","h","e","r","e","\n","(","x">>
    [] url = UrlRef      -> <<"a","\n","M","A","T","C","H","\n","c","\n","d","\n","e","\n","f">>
    [] url = UrlTips     -> <<"m","a","p"," ","t","i","p","s","\n","n","e","x","t"," ","t","o","p","i","c","\n","m","a","p">>
    [] OTHER             -> <<"N","o","t"," ","F","o","u","n","d">>

\* the queries a caller passes (interaction.options.getString('query'), lines 280 and 324)
Queries == { <<"m","a","p">>, <<"M","a","p">>, <<"a","u","t","o">>, <<"(">>, <<"^","m","a","p">>, <<"z","z","z">>, <<"m","a","t","c","h">>, <<"p"," ","r">> }

-----------------------------------------------------------------------------
(* fetchCompleteDocumentation, src/bot.js lines 146-199 *)

FailedMessage     == <<"U+274C">> \o <<" ","F","a","i","l","e","d"," ","t","o"," ","r","e","t","r","i","e","v","e"," ","d","o","c","u","m","e","n","t","a","t","i","o","n",".">>
NoRelevantMessage == <<"U+274C">> \o <<" ","N","o"," ","r","e","l","e","v","a","n","t"," ","d","o","c","u","m","e","n","t","a","t","i","o","n"," ","f","o","u","n","d",".">>

\* line 186: matchedPages.slice(0, 5)
TopPagesLimit == 5

NullPage    == [kind |-> "null", url |-> <<>>, text |-> <<>>]
PendingPage == [kind |-> "pending", url |-> <<>>, text |-> <<>>]

RECURSIVE Dedupe(_)
\* line 160: [...new Set(pagesToScrape)] keeps the first occurrence of each URL
Dedupe(s) ==
  IF s = <<>> THEN <<>>
  ELSE LET init == Dedupe(SubSeq(s, 1, Len(s) - 1))
           last == s[Len(s)]
       IN  IF \E i \in 1..Len(init) : init[i] = last THEN init ELSE Append(init, last)

\* lines 164-168 and 172: what a candidate's promise resolves to after a successful get
CandidatePage(link, q) ==
  LET text == Trim(SiteBody(link))
  IN  IF ContainsQuery(text, q) THEN [kind |-> "page", url |-> link, text |-> text]
      ELSE NullPage

\* line 175: Promise.all puts each promise's value at the index of its promise
SettlePage(ps, i, p) == [ps EXCEPT ![i] = p]

RECURSIVE InsertByCount_Unstable(_, _)
InsertByCount_Unstable(sorted, p) ==
  IF sorted = <<>> THEN <<p>>
  ELSE IF Head(sorted).count > p.count
       THEN <<Head(sorted)>> \o InsertByCount_Unstable(Tail(sorted), p)
       ELSE <<p>> \o sorted

RECURSIVE InsertByCount(_, _)
\* line 183: the comparator b.count - a.count under a stable sort
InsertByCount(sorted, p) ==
  IF sorted = <<>> THEN <<p>>
  ELSE IF Head(sorted).count - p.count >= 0
       THEN <<Head(sorted)>> \o InsertByCount(Tail(sorted), p)
       ELSE <<p>> \o sorted

RECURSIVE SortByCount(_)
\* line 183: matchedPages.sort(...)
SortByCount(ps) ==
  IF ps = <<>> THEN <<>>
  ELSE InsertByCount(SortByCount(SubSeq(ps, 1, Len(ps) - 1)), ps[Len(ps)])

\* lines 179-182: page.count = number of matches of the query as a regular expression
WithCounts(ps, q) ==
  [k \in 1..Len(ps) |->
     [url |-> ps[k].url, text |-> ps[k].text, count |-> OccurrenceCount(ps[k].text, q)]]

\* line 176: pages.filter(Boolean)
MatchedOf(ps) == SelectSeq(ps, LAMBDA p : p.kind = "page")

\* line 190
ReplyPart(url, snip) ==
  <<"*","*","F","r","o","m"," ","[","C","l","i","c","k"," ","h","e","r","e"," ","f","o","r"," ","m","o","r","e"," ","i","n","f","o","r","m","a","t","i","o","n","]","(">> \o url \o <<")",":","*","*","\n">> \o snip \o <<"\n","\n">>

RECURSIVE Combine(_, _)
\* lines 185-192: the loop over topPages, skipping the empty snippets
Combine(top, snips) ==
  IF top = <<>> THEN <<>>
  ELSE (IF Head(snips) # <<>> THEN ReplyPart(Head(top).url, Head(snips)) ELSE <<>>)
       \o Combine(Tail(top), Tail(snips))

\* a return of combinedText as it is
OrNoRelevant_Raw(text) == text

\* line 194: combinedText || 'No relevant documentation found.'
OrNoRelevant(text) == IF text # <<>> THEN text ELSE NoRelevantMessage

\* lines 176-194, run when Promise.all resolves: the values computed, and whether
\* new RegExp threw (it is built once per matched page, so only if there is one)
ComposeBody(ps, q) ==
  LET matched == MatchedOf(ps)
  IN  IF matched # <<>> /\ RegExpThrows(q)
      THEN [threw |-> TRUE, matched |-> matched, ranked |-> <<>>, top |-> <<>>,
            snips |-> <<>>, value |-> <<>>]
      ELSE LET sorted == SortByCount(WithCounts(matched, q))
               top    == SubSeq(sorted, 1, Min(TopPagesLimit, Len(sorted)))
               snips  == [k \in 1..Len(top) |-> extractRelevantSnippet(top[k].text, q)]
               text   == Combine(top, snips)
           IN  [threw |-> FALSE, matched |-> matched, ranked |-> sorted, top |-> top,
                snips |-> snips,
                value |-> OrNoRelevant(text)]

\* an async function whose exception is not caught rejects its promise
Catch_Rethrow(body) ==
  IF body.threw THEN [status |-> "rejected", value |-> <<>>]
  ELSE [status |-> "fulfilled", value |-> body.value]

\* lines 147 and 195-198: the try/catch around the whole body
Catch(body) ==
  IF body.threw THEN [status |-> "fulfilled", value |-> FailedMessage]
  ELSE [status |-> "fulfilled", value |-> body.value]

PendingPromise == [status |-> "pending", value |-> <<>>]

Init ==
  /\ pc = "start"
  /\ baseUrl = ExampleBase
  /\ query \in Queries
  /\ anchors \in {SubSeq(MainAnchors, 1, n) : n \in 0..Min(MaxAnchors, Len(MainAnchors))}
  /\ rootFetch = "none"
  /\ results = <<>>
  /\ links = <<>>
  /\ uniqueLinks = <<>>
  /\ requests = <<>>
  /\ outcome = <<>>
  /\ pages = <<>>
  /\ matchedPages = <<>>
  /\ ranked = <<>>
  /\ topPages = <<>>
  /\ snippets = <<>>
  /\ threw = FALSE
  /\ settled = PendingPromise
  /\ fullText = <<>>
  /\ keptLines = <<>>
  /\ snippet = <<>>

\* a root fetch whose failure does not stop the crawl
RootFetchFail_Continues ==
  /\ pc = "start"
  /\ rootFetch' = "failed"
  /\ links' = extractLinks(anchors, baseUrl)
  /\ uniqueLinks' = Dedupe(<<baseUrl>> \o links')
  /\ requests' = uniqueLinks'
  /\ outcome' = [i \in 1..Len(uniqueLinks') |-> "failed"]
  /\ pages' = [i \in 1..Len(uniqueLinks') |-> NullPage]
  /\ pc' = "done"
  /\ settled' = Catch([threw |-> TRUE, value |-> <<>>])
  /\ threw' = TRUE
  /\ UNCHANGED <<baseUrl, query, anchors, results, matchedPages, ranked, topPages,
                 snippets, fullText, keptLines, snippet>>

\* line 148 throws: control goes to the catch of lines 195-198
RootFetchFail ==
  /\ pc = "start"
  /\ rootFetch' = "failed"
  /\ pc' = "done"
  /\ threw' = TRUE
  /\ settled' = Catch([threw |-> TRUE, value |-> <<>>])
  /\ UNCHANGED <<baseUrl, query, anchors, results, links, uniqueLinks, requests, outcome,
                 pages, matchedPages, ranked, topPages, snippets, fullText, keptLines,
                 snippet>>

\* lines 148-173: the root fetch succeeds; the map of line 161 calls axios.get for
\* every unique link before the first await of line 175 yields
RootFetchOk ==
  /\ pc = "start"
  /\ rootFetch' = "ok"
  /\ LET mainText == Trim(SiteBody(baseUrl))
     IN  results' = IF ContainsQuery(mainText, query)
                    THEN <<[url |-> baseUrl, text |-> mainText]>>
                    ELSE <<>>
  /\ links' = extractLinks(anchors, baseUrl)
  /\ uniqueLinks' = Dedupe(<<baseUrl>> \o links')
  /\ requests' = uniqueLinks'
  /\ outcome' = [i \in 1..Len(uniqueLinks') |-> "pending"]
  /\ pages' = [i \in 1..Len(uniqueLinks') |-> PendingPage]
  /\ pc' = "fanout"
  /\ UNCHANGED <<baseUrl, query, anchors, matchedPages, ranked, topPages, snippets,
                 threw, settled, fullText, keptLines, snippet>>

\* a candidate failure that rejects the whole join, as an unguarded Promise.all would
CandidateFetchFail_Aborts(i) ==
  /\ pc = "fanout"
  /\ outcome[i] = "pending"
  /\ outcome' = [outcome EXCEPT ![i] = "failed"]
  /\ pages' = SettlePage(pages, i, NullPage)
  /\ pc' = "done"
  /\ threw' = TRUE
  /\ settled' = Catch([threw |-> TRUE, value |-> <<>>])
  /\ UNCHANGED <<baseUrl, query, anchors, rootFetch, results, links, uniqueLinks,
                 requests, matchedPages, ranked, topPages, snippets, fullText, keptLines,
                 snippet>>

\* lines 163 and 169-172: the get of candidate i fails; its promise resolves to null
CandidateFetchFail(i) ==
  /\ pc = "fanout"
  /\ outcome[i] = "pending"
  /\ outcome' = [outcome EXCEPT ![i] = "failed"]
  /\ pages' = SettlePage(pages, i, NullPage)
  /\ UNCHANGED <<pc, baseUrl, query, anchors, rootFetch, results, links, uniqueLinks,
                 requests, matchedPages, ranked, topPages, snippets, threw, settled,
                 fullText, keptLines, snippet>>

\* lines 163-168 and 172: the get of candidate i succeeds
CandidateFetchOk(i) ==
  /\ pc = "fanout"
  /\ outcome[i] = "pending"
  /\ outcome' = [outcome EXCEPT ![i] = "ok"]
  /\ pages' = SettlePage(pages, i, CandidatePage(uniqueLinks[i], query))
  /\ UNCHANGED <<pc, baseUrl, query, anchors, rootFetch, results, links, uniqueLinks,
                 requests, matchedPages, ranked, topPages, snippets, threw, settled,
                 fullText, keptLines, snippet>>

\* lines 175-198: every promise has settled, Promise.all resolves and the rest of
\* the body runs to the return, or to the catch when new RegExp throws
Compose ==
  /\ pc = "fanout"
  /\ \A i \in 1..Len(pages) : pages[i].kind # "pending"
  /\ LET body == ComposeBody(pages, query)
     IN  /\ matchedPages' = body.matched
         /\ ranked' = body.ranked
         /\ topPages' = body.top
         /\ snippets' = body.snips
         /\ threw' = body.threw
         /\ settled' = Catch(body)
  /\ pc' = "done"
  /\ UNCHANGED <<baseUrl, query, anchors, rootFetch, results, links, uniqueLinks,
                 requests, outcome, pages, fullText, keptLines, snippet>>

Next ==
  \/ RootFetchFail
  \/ RootFetchOk
  \/ \E i \in 1..Len(pages) : CandidateFetchFail(i)
  \/ \E i \in 1..Len(pages) : CandidateFetchOk(i)
  \/ Compose

Spec == Init /\ [][Next]_vars

-----------------------------------------------------------------------------
(* extractRelevantSnippet on its own: every text of at most MaxLines lines drawn *)
(* from LinePool, the six-line example text and one text longer than the limit.  *)

LinePool == { <<"b">>, <<" ","A","b"," ">>, <<>>, <<"a","u","t","o">>, <<"\t","c"," ">> }

ExampleText == <<"a","\n","M","A","T","C","H","\n","c","\n","d","\n","e","\n","f">>

LongText == [i \in 1..1201 |-> IF i = 601 THEN "\n" ELSE "a"]

SnippetTexts ==
  {Join(ls, <<"\n">>) : ls \in UNION {[1..k -> LinePool] : k \in 0..MaxLines}}
    \cup {ExampleText, LongText}

SnippetQueries == { <<"a">>, <<"A","B">>, <<"M","A","T","C","H">> }

InitSnippet ==
  /\ pc = "snip"
  /\ query \in SnippetQueries
  /\ fullText \in SnippetTexts
  /\ keptLines = <<>>
  /\ snippet = <<>>
  /\ baseUrl = <<>>
  /\ anchors = <<>>
  /\ rootFetch = "none"
  /\ results = <<>>
  /\ links = <<>>
  /\ uniqueLinks = <<>>
  /\ requests = <<>>
  /\ outcome = <<>>
  /\ pages = <<>>
  /\ matchedPages = <<>>
  /\ ranked = <<>>
  /\ topPages = <<>>
  /\ snippets = <<>>
  /\ threw = FALSE
  /\ settled = PendingPromise

\* a call of extractRelevantSnippet(fullText, query), lines 115-141
ExtractSnippet ==
  /\ pc = "snip"
  /\ keptLines' = KeptLines(fullText, query)
  /\ snippet' = extractRelevantSnippet(fullText, query)
  /\ pc' = "snip_done"
  /\ UNCHANGED <<baseUrl, query, anchors, rootFetch, results, links, uniqueLinks, requests,
                 outcome, pages, matchedPages, ranked, topPages, snippets, threw, settled,
                 fullText>>

NextSnippet == ExtractSnippet

SpecSnippet == InitSnippet /\ [][NextSnippet]_vars

-----------------------------------------------------------------------------
(* extractLinks on its own: pages of at most MaxHrefs anchors drawn from HrefPool, *)
(* under three base URLs (two of the shapes of lines 39-56).                       *)

LinkBases == { ExampleBase, <<"h","t","t","p","s",":","/","/","e","x","a","m","p","l","e",".","c","o","m","/","d","o","c","s","/">>, <<"h","t","t","p","s",":","/","/","d","o","c","s",".","p","y","t","h","o","n",".","o","r","g","/","3","/">> }

HrefPool ==
  { <<"/","d","o","c","s","/","i","n","t","r","o">>, <<"h","t","t","p","s",":","/","/","o","t","h","e","r",".","c","o","m","/","x">>, <<"g","u","i","d","e">>, NoHref, <<>>,
    <<"h","t","t","p","s",":","/","/","e","x","a","m","p","l","e",".","c","o","m","/","d","o","c","s","/","a","p","i">>, <<"H","T","T","P",":","/","/","e","x","a","m","p","l","e",".","c","o","m","/","d","o","c","s">>, <<"/","3","/","l","i","b","r","a","r","y">> }

InitLinks ==
  /\ pc = "links"
  /\ baseUrl \in LinkBases
  /\ anchors \in UNION {[1..k -> HrefPool] : k \in 0..MaxHrefs}
  /\ links = <<>>
  /\ query = <<>>
  /\ fullText = <<>>
  /\ keptLines = <<>>
  /\ snippet = <<>>
  /\ rootFetch = "none"
  /\ results = <<>>
  /\ uniqueLinks = <<>>
  /\ requests = <<>>
  /\ outcome = <<>>
  /\ pages = <<>>
  /\ matchedPages = <<>>
  /\ ranked = <<>>
  /\ topPages = <<>>
  /\ snippets = <<>>
  /\ threw = FALSE
  /\ settled = PendingPromise

\* a call of extractLinks($, baseUrl), lines 92-110
ExtractLinksCall ==
  /\ pc = "links"
  /\ links' = extractLinks(anchors, baseUrl)
  /\ pc' = "links_done"
  /\ UNCHANGED <<baseUrl, query, anchors, rootFetch, results, uniqueLinks, requests,
                 outcome, pages, matchedPages, ranked, topPages, snippets, threw, settled,
                 fullText, keptLines, snippet>>

NextLinks == ExtractLinksCall

SpecLinks == InitLinks /\ [][NextLinks]_vars

-----------------------------------------------------------------------------
(* Properties *)

Fulfilled(v) == [status |-> "fulfilled", value |-> v]

\* the trimmed body text a successful get of candidate i gives
TextOf(i) == Trim(SiteBody(uniqueLinks[i]))

\* the candidates whose get succeeded and whose text contains the query
FetchedMatching == {i \in 1..Len(uniqueLinks) : outcome[i] = "ok" /\ ContainsQuery(TextOf(i), query)}

\* the position of a URL in the de-duplicated candidate list (discovery order)
Discovery(url) == CHOOSE i \in 1..Len(uniqueLinks) : uniqueLinks[i] = url

\* C1: the promise of fetchCompleteDocumentation is never rejected; once the call
\* is over it is fulfilled with a string that is the "Failed to retrieve" message,
\* the "No relevant documentation" message or the reply composed from the top
\* pages and their snippets.
C1_NeverRejects ==
  /\ settled.status # "rejected"
  /\ pc = "done" =>
       /\ settled.status = "fulfilled"
       /\ \/ settled.value \in {FailedMessage, NoRelevantMessage}
          \/ settled.value # <<>> /\ settled.value = Combine(topPages, snippets)

\* the query is not a valid regular expression and a page matched it: the throw
\* of line 180 was caught
C1_Witness ==
  /\ pc = "done"
  /\ rootFetch = "ok"
  /\ RegExpThrows(query)
  /\ matchedPages # <<>>
  /\ settled = Fulfilled(FailedMessage)

\* C2: after a failed fetch of baseUrl the call is over with exactly the "Failed
\* to retrieve documentation" message, no link was extracted and no candidate
\* request was issued.
C2_RootFailure ==
  rootFetch = "failed" =>
    /\ pc = "done"
    /\ settled = Fulfilled(FailedMessage)
    /\ links = <<>>
    /\ requests = <<>>
    /\ outcome = <<>>

C2_Witness == rootFetch = "failed" /\ Len(anchors) >= 3 /\ pc = "done"

\* C3: the fan-out issues one request per de-duplicated candidate (the base URL
\* and every extracted link, each once); a step of the fan-out settles exactly one
\* candidate and leaves every sibling's outcome and result as they were, a failed
\* candidate resolving to null; and the ranking starts only when every candidate
\* has settled, on exactly the fetched candidates whose text contains the query,
\* in candidate order.
C3_FanOut ==
  [][ /\ (pc = "start" /\ pc' = "fanout") =>
           /\ requests' = uniqueLinks'
           /\ \A i, j \in 1..Len(uniqueLinks') :
                uniqueLinks'[i] = uniqueLinks'[j] => i = j
           /\ {uniqueLinks'[i] : i \in 1..Len(uniqueLinks')}
                = {baseUrl} \cup {links'[i] : i \in 1..Len(links')}
           /\ Len(outcome') = Len(uniqueLinks')
           /\ \A i \in 1..Len(outcome') : outcome'[i] = "pending" /\ pages'[i] = PendingPage
      /\ pc = "fanout" =>
           /\ pc' = "fanout" =>
                \E i \in 1..Len(outcome) :
                  /\ outcome[i] = "pending"
                  /\ outcome'[i] \in {"ok", "failed"}
                  /\ outcome'[i] = "failed" => pages'[i] = NullPage
                  /\ outcome'[i] = "ok" => pages'[i] \in {NullPage, [kind |-> "page", url |-> uniqueLinks[i], text |-> TextOf(i)]}
                  /\ \A j \in 1..Len(outcome) \ {i} :
                       outcome'[j] = outcome[j] /\ pages'[j] = pages[j]
           /\ pc' = "done" =>
                /\ \A i \in 1..Len(outcome) : outcome[i] # "pending"
                /\ outcome' = outcome /\ pages' = pages
                /\ LET idx == SortAscending(FetchedMatching)
                   IN  matchedPages' =
                         [k \in 1..Len(idx) |->
                            [kind |-> "page", url |-> uniqueLinks[idx[k]], text |-> TextOf(idx[k])]]
           /\ requests' = requests /\ uniqueLinks' = uniqueLinks
    ]_vars

\* a failed candidate next to a fetched one that matched and was ranked
C3_Witness ==
  /\ pc = "done"
  /\ \E i, j \in 1..Len(outcome) :
       /\ i < j
       /\ outcome[i] = "failed"
       /\ outcome[j] = "ok"
       /\ \E k \in 1..Len(matchedPages) : matchedPages[k].url = uniqueLinks[j]
  /\ Len(uniqueLinks) < Len(links) + 1

\* C4: with the root fetched and some candidate fetch failed, a fetched candidate
\* whose text contains the query makes the reply a non-sentinel one.
C4_FaultIsolation ==
  ( /\ pc = "done"
    /\ rootFetch = "ok"
    /\ \E i \in 1..Len(outcome) : outcome[i] = "failed"
    /\ FetchedMatching # {} )
  => /\ settled.status = "fulfilled"
     /\ settled.value \notin {FailedMessage, NoRelevantMessage}

\* C5: with the root fetched, the reply is exactly the "No relevant documentation
\* found" message when no fetched page's text contains the query and when every
\* top page's snippet is empty; the function never returns the empty string.
C5_EmptySentinel ==
  /\ (pc = "done" /\ rootFetch = "ok" /\ FetchedMatching = {})
       => settled = Fulfilled(NoRelevantMessage)
  /\ (pc = "done" /\ rootFetch = "ok" /\ ~threw
        /\ \A k \in 1..Len(topPages) : extractRelevantSnippet(topPages[k].text, query) = <<>>)
       => settled = Fulfilled(NoRelevantMessage)
  /\ settled.status = "fulfilled" => settled.value # <<>>

\* pages matched and were ranked, and every snippet came out empty
C5_Witness ==
  /\ pc = "done"
  /\ topPages # <<>>
  /\ \A k \in 1..Len(snippets) : snippets[k] = <<>>
  /\ settled = Fulfilled(NoRelevantMessage)

\* the scheme and host of a URL: its prefix up to the first "/" after "://"
OriginOf(url) ==
  CHOOSE p \in {SubSeq(url, 1, k) : k \in 0..Len(url)} :
    /\ \E s \in {<<"h","t","t","p",":","/","/">>, <<"h","t","t","p","s",":","/","/">>} :
         /\ StartsWith(p, s)
         /\ Len(p) > Len(s)
         /\ \A j \in (Len(s) + 1)..Len(p) : p[j] # "/"
    /\ (Len(p) = Len(url) \/ url[Len(p) + 1] = "/")

\* an href resolved with a root-relative path taken against the scheme and host
ResolveAgainstOrigin(href, base) ==
  IF StartsWith(href, <<"/">>) THEN OriginOf(base) \o href ELSE ResolveHref(href, base)

RECURSIVE LinksResolvedAgainstOrigin(_, _)
LinksResolvedAgainstOrigin(as, base) ==
  IF as = <<>> THEN <<>>
  ELSE LET href == Head(as)
           rest == LinksResolvedAgainstOrigin(Tail(as), base)
       IN  IF href = NoHref \/ href = <<>> THEN rest
           ELSE IF StartsWith(ResolveAgainstOrigin(href, base), base)
                THEN <<ResolveAgainstOrigin(href, base)>> \o rest
                ELSE rest

\* C6: extractLinks resolves a root-relative href against the scheme and host of
\* baseUrl and keeps the resolved URLs that start with baseUrl; under
\* https://example.com/docs the href /docs/intro gives
\* https://example.com/docs/intro and https://other.com/x is dropped.
C6_SameOrigin ==
  pc = "links_done" =>
    /\ links = LinksResolvedAgainstOrigin(anchors, baseUrl)
    /\ (baseUrl = ExampleBase /\ anchors = <<<<"/","d","o","c","s","/","i","n","t","r","o">>, <<"h","t","t","p","s",":","/","/","o","t","h","e","r",".","c","o","m","/","x">>>>)
         => links = <<<<"h","t","t","p","s",":","/","/","e","x","a","m","p","l","e",".","c","o","m","/","d","o","c","s","/","i","n","t","r","o">>>>

\* C7: the lines extractRelevantSnippet keeps are the trimmed, junk-filtered lines
\* whose index is within 2 of the index of a line containing the query ignoring
\* case, each once, in ascending order; with no matching line the snippet is empty.
C7_ContextWindow ==
  pc = "snip_done" =>
    LET lines == FilteredLines(fullText)
        hits  == {j \in 1..Len(lines) : ContainsQuery(lines[j], query)}
        keep  == {i \in 1..Len(lines) : \E j \in hits : i - j \in (-2)..2}
        order == SortAscending(keep)
    IN  /\ keptLines = [k \in 1..Len(order) |-> lines[order[k]]]
        /\ Len(keptLines) = Cardinality(keep)
        /\ hits = {} => snippet = <<>>

\* the example: lines a, MATCH, c, d, e, f and the query MATCH give a, MATCH, c, d
C7_Witness ==
  /\ pc = "snip_done"
  /\ fullText = ExampleText
  /\ query = <<"M","A","T","C","H">>
  /\ keptLines = << <<"a">>, <<"M","A","T","C","H">>, <<"c">>, <<"d">> >>
  /\ snippet = <<"a","\n","M","A","T","C","H","\n","c","\n","d">>

\* p comes before q in the ranking: a higher count, or the same count and an
\* earlier discovery
RanksBefore(p, q) ==
  \/ p.count > q.count
  \/ p.count = q.count /\ Discovery(p.url) < Discovery(q.url)

\* C8: the pages the reply is composed from are the first 5 (at most) of the
\* matched pages by occurrence count, highest first, equal counts in discovery
\* order, whatever the order in which the candidate fetches completed.
C8_Ranking ==
  (pc = "done" /\ rootFetch = "ok" /\ ~threw) =>
    /\ Len(topPages) = Min(5, Cardinality(FetchedMatching))
    /\ \A k \in 1..Len(topPages) :
         \E i \in FetchedMatching :
           /\ topPages[k].url = uniqueLinks[i]
           /\ topPages[k].text = TextOf(i)
           /\ topPages[k].count = OccurrenceCount(TextOf(i), query)
    /\ \A k, l \in 1..Len(topPages) : k < l => RanksBefore(topPages[k], topPages[l])
    /\ \A i \in FetchedMatching :
         (\A k \in 1..Len(topPages) : topPages[k].url # uniqueLinks[i]) =>
           \A k \in 1..Len(topPages) :
             RanksBefore(topPages[k],
                         [url |-> uniqueLinks[i], count |-> OccurrenceCount(TextOf(i), query)])

\* the example: counts 3, 1, 5 in discovery order rank as 5, 3, 1
C8_Witness ==
  /\ pc = "done"
  /\ [k \in 1..Len(matchedPages) |-> matchedPages[k].url] = <<UrlIntro, UrlGuide, UrlApi>>
  /\ [k \in 1..Len(topPages) |-> topPages[k].url] = <<UrlApi, UrlIntro, UrlGuide>>
  /\ [k \in 1..Len(topPages) |-> topPages[k].count] = <<5, 3, 1>>

\* more matched pages than the limit, with two equal counts among those kept
C8_WitnessCut ==
  /\ pc = "done"
  /\ Len(matchedPages) > 5
  /\ Len(topPages) = 5
  /\ \E k \in 1..4 : topPages[k].count = topPages[k + 1].count

\* C9: every page that enters the ranking (its text contains the query) is given
\* an occurrence count of at least 1.
C9_CountAtLeastOne ==
  pc = "done" => \A k \in 1..Len(ranked) : ranked[k].count >= 1

\* C10: when the root fetch succeeds and the main page's text contains the query,
\* the main page is among the pages that are ranked, whatever the candidate
\* fetches do.
C10_MainPageRanked ==
  (pc = "done" /\ rootFetch = "ok" /\ ContainsQuery(Trim(SiteBody(baseUrl)), query)) =>
    \E k \in 1..Len(matchedPages) : matchedPages[k].url = baseUrl

====
